---- MODULE Spec2Model ----
(***************************************************************************)
(* A model of broadband_cap.py: the time needed to reach a broadband cap   *)
(* at a given speed, the decomposition of a number of seconds into         *)
(* (years, days, hours, minutes, seconds), and the printers around them.   *)
(*                                                                         *)
(* Python's float is IEEE 754 binary64.  A float is modelled by its exact  *)
(* value m * 2^e (m an odd natural number of at most 53 bits, or zero),    *)
(* and every float operation by the exact operation followed by rounding   *)
(* to nearest, ties to even, at 53 bits.  Naturals beyond 31 bits are kept *)
(* as little-endian sequences of 15-bit limbs.  Overflow to infinity and   *)
(* subnormal results lie outside the magnitudes the model draws.           *)
(***************************************************************************)
EXTENDS Integers, Sequences, FiniteSets, TLC

Max(a, b) == IF a >= b THEN a ELSE b
Min(a, b) == IF a <= b THEN a ELSE b
SetMax(S) == CHOOSE x \in S : \A y \in S : y <= x
SetMin(S) == CHOOSE x \in S : \A y \in S : x <= y

(***************************************************************************)
(* Natural numbers of any size: little-endian limb sequences, no leading   *)
(* zero limb, <<>> for zero.  Carries and borrows are looked ahead, so     *)
(* that only the divisions and the conversion to decimal recur.            *)
(***************************************************************************)
LimbBits == 15
Base == 2^LimbBits

Limb(a, k) == IF k >= 1 /\ k <= Len(a) THEN a[k] ELSE 0

Norm(a) == SubSeq(a, 1, SetMax({0} \cup {k \in 1..Len(a) : a[k] # 0}))

\* a natural below 2^31
BN(n) == Norm(<<n % Base, (n \div Base) % Base, n \div (Base * Base)>>)

\* the carry into limb k of a + b
CarryIn(a, b, k) ==
  \E j \in 1..(k - 1) :
    /\ Limb(a, j) + Limb(b, j) >= Base
    /\ \A l \in (j + 1)..(k - 1) : Limb(a, l) + Limb(b, l) = Base - 1

AddLimb(a, b, k) ==
  (Limb(a, k) + Limb(b, k) + (IF CarryIn(a, b, k) THEN 1 ELSE 0)) % Base

BigAdd(a, b) == Norm([k \in 1..(Max(Len(a), Len(b)) + 1) |-> AddLimb(a, b, k)])

\* the borrow from limb k of a - b
BorrowIn(a, b, k) ==
  \E j \in 1..(k - 1) :
    /\ Limb(a, j) < Limb(b, j)
    /\ \A l \in (j + 1)..(k - 1) : Limb(a, l) = Limb(b, l)

SubLimb(a, b, k) ==
  (Base + Limb(a, k) - Limb(b, k) - (IF BorrowIn(a, b, k) THEN 1 ELSE 0)) % Base

\* a - b for a >= b
BigSub(a, b) == Norm([k \in 1..Len(a) |-> SubLimb(a, b, k)])

\* the sign of a - b at the highest limb where they differ
CmpAt(a, b, k) == IF a[k] < b[k] THEN -1 ELSE 1

\* -1, 0, 1 as a < b, a = b, a > b
BigCmp(a, b) ==
  IF Len(a) < Len(b) THEN -1
  ELSE IF Len(a) > Len(b) THEN 1
  ELSE IF a = b THEN 0
  ELSE CmpAt(a, b, SetMax({k \in 1..Len(a) : a[k] # b[k]}))

\* a * k for 0 <= k < Base: the low halves of the limb products plus their
\* high halves one limb up
MulSmall(a, k) ==
  BigAdd(Norm([j \in 1..Len(a) |-> (a[j] * k) % Base]),
         Norm([j \in 1..(Len(a) + 1) |-> IF j = 1 THEN 0 ELSE (a[j - 1] * k) \div Base]))

ShiftLimbs(a, n) ==
  IF a = <<>> THEN <<>>
  ELSE [j \in 1..(Len(a) + n) |-> IF j <= n THEN 0 ELSE a[j - n]]

RECURSIVE MulFrom(_, _, _)
MulFrom(a, b, j) ==
  IF j > Len(b) THEN <<>>
  ELSE BigAdd(ShiftLimbs(MulSmall(a, b[j]), j - 1), MulFrom(a, b, j + 1))

BigMul(a, b) == MulFrom(a, b, 1)

SmallBitLen(n) == SetMin({k \in 0..LimbBits : n < 2^k})

BitLen(a) == IF a = <<>> THEN 0 ELSE LimbBits * (Len(a) - 1) + SmallBitLen(a[Len(a)])

\* bit k of a, the least significant bit being bit 0
Bit(a, k) == (Limb(a, (k \div LimbBits) + 1) \div 2^(k % LimbBits)) % 2

Shl(a, k) == ShiftLimbs(MulSmall(a, 2^(k % LimbBits)), k \div LimbBits)

\* limb j of a shifted right by w limbs and s bits
ShrLimb(a, j, w, s) ==
  (Limb(a, j + w) \div 2^s) + (Limb(a, j + w + 1) % 2^s) * 2^(LimbBits - s)

Shr(a, k) ==
  Norm([j \in 1..Max(0, Len(a) - (k \div LimbBits)) |->
          ShrLimb(a, j, k \div LimbBits, k % LimbBits)])

\* the low k bits of a
LowBits(a, k) ==
  Norm([j \in 1..Min(Len(a), (k \div LimbBits) + 1) |->
          IF j <= k \div LimbBits THEN a[j] ELSE a[j] % 2^(k % LimbBits)])

\* Division loops carry <<the limbs left, the quotient so far, the
\* remainder>>, from the top limb down.
DivState(left, q, step) == <<left, <<step[1]>> \o q, step[2]>>

\* <<quotient, remainder>> of a by d, 0 < d < Base
SmallLimb(d, x) == <<x \div d, x % d>>

RECURSIVE DivSmallLoop(_, _, _)
DivSmallLoop(a, d, st) ==
  IF st[1] = 0 THEN <<Norm(st[2]), st[3]>>
  ELSE DivSmallLoop(a, d, DivState(st[1] - 1, st[2],
                                   SmallLimb(d, st[3] * Base + a[st[1]])))

DivModSmall(a, d) == DivSmallLoop(a, d, <<Len(a), <<>>, 0>>)

\* <<quotient, remainder>> of a by b > 0: long division.  b's top limb is at
\* least Base / 2 (BigDivMod shifts both operands), so the estimate of a
\* quotient limb from the top two limbs of the remainder is the limb or up
\* to two more.
RECURSIVE LimbFix(_, _, _)
LimbFix(b, r, qhat) ==
  IF BigCmp(MulSmall(b, qhat), r) > 0
  THEN LimbFix(b, r, qhat - 1)
  ELSE <<qhat, BigSub(r, MulSmall(b, qhat))>>

\* <<the quotient's limb, the remainder>> of r by b, r < b * Base
LimbOf(b, r) ==
  LimbFix(b, r, Min(Base - 1,
                    (Limb(r, Len(b) + 1) * Base + Limb(r, Len(b))) \div b[Len(b)]))

RECURSIVE DivLoop(_, _, _)
DivLoop(a, b, st) ==
  IF st[1] = 0 THEN <<Norm(st[2]), st[3]>>
  ELSE DivLoop(a, b, DivState(st[1] - 1, st[2],
                              LimbOf(b, Norm(<<a[st[1]]>> \o st[3]))))

Unshift(qr, sh) == <<qr[1], Shr(qr[2], sh)>>

DivModShifted(a, b, sh) == Unshift(DivLoop(a, b, <<Len(a), <<>>, <<>>>>), sh)

BigDivModBy(a, b, sh) == DivModShifted(Shl(a, sh), Shl(b, sh), sh)

BigDivMod(a, b) == BigDivModBy(a, b, LimbBits - SmallBitLen(b[Len(b)]))

\* the number of trailing zero bits of a > 0
SmallTrailing(n) == SetMax({k \in 0..LimbBits : n % 2^k = 0})

TrailingAt(a, z) == LimbBits * (z - 1) + SmallTrailing(a[z])

Trailing(a) == TrailingAt(a, SetMin({k \in 1..Len(a) : a[k] # 0}))

\* the decimal digits of a, most significant first, as a string
Digit(d) == <<"0", "1", "2", "3", "4", "5", "6", "7", "8", "9">>[d + 1]

DecimalState(digits, qr) == <<Digit(qr[2]) \o digits, qr[1]>>

RECURSIVE DecimalLoop(_)
DecimalLoop(st) ==
  IF st[2] = <<>> THEN st[1]
  ELSE DecimalLoop(DecimalState(st[1], DivModSmall(st[2], 10)))

Decimal(a) == IF a = <<>> THEN "0" ELSE DecimalLoop(<<"", a>>)

(***************************************************************************)
(* binary64.  A float is [m |-> natural, e |-> integer] with value         *)
(* m * 2^e, m odd or (m, e) = (0, 0): equal values are equal records.      *)
(***************************************************************************)
Precision == 53

CanonAt(m, e, z) == [m |-> Shr(m, z), e |-> e + z]

Canon(m, e) == IF m = <<>> THEN [m |-> <<>>, e |-> 0] ELSE CanonAt(m, e, Trailing(m))

\* q * 2^e raised by one unit in the last place when the bits dropped below
\* q compare as c (-1, 0, 1) with half a unit; ties go to the even q
RoundPick(q, e, c, sticky) ==
  Canon(IF c > 0 \/ (c = 0 /\ (sticky \/ Bit(q, 0) = 1)) THEN BigAdd(q, <<1>>) ELSE q, e)

RoundAt(m, e, sticky, sh) ==
  RoundPick(Shr(m, sh), e + sh, BigCmp(LowBits(m, sh), Shl(<<1>>, sh - 1)), sticky)

\* the float nearest to (m + f) * 2^e, where 0 < f < 1 if sticky and f = 0
\* otherwise; ties to even.  With sticky, m has more than Precision bits.
RoundFloat(m, e, sticky) ==
  IF BitLen(m) <= Precision THEN Canon(m, e)
  ELSE RoundAt(m, e, sticky, BitLen(m) - Precision)

FromInt(n) == Canon(BN(n), 0)

\* n / 2^k
Dyadic(n, k) == Canon(BN(n), -k)

FZero == [m |-> <<>>, e |-> 0]

\* the natural a.m * 2^(a.e - e) for e <= a.e: a's value in units of 2^e
Units(a, e) == IF a.m = <<>> THEN <<>> ELSE Shl(a.m, a.e - e)

FCmp(a, b) == BigCmp(Units(a, Min(a.e, b.e)), Units(b, Min(a.e, b.e)))

FAdd(a, b) ==
  RoundFloat(BigAdd(Units(a, Min(a.e, b.e)), Units(b, Min(a.e, b.e))), Min(a.e, b.e), FALSE)

\* a - b for a >= b
FSub(a, b) ==
  RoundFloat(BigSub(Units(a, Min(a.e, b.e)), Units(b, Min(a.e, b.e))), Min(a.e, b.e), FALSE)

FMul(a, b) == RoundFloat(BigMul(a.m, b.m), a.e + b.e, FALSE)

\* a / b for b # 0: the quotient of a.m * 2^k by b.m carries at least
\* Precision + 2 bits, the remainder is the sticky bit
FDivRound(qr, e) == RoundFloat(qr[1], e, qr[2] # <<>>)

FDivAt(a, b, k) == FDivRound(BigDivMod(Shl(a.m, k), b.m), a.e - b.e - k)

FDiv(a, b) ==
  IF a.m = <<>> THEN FZero
  ELSE FDivAt(a, b, Max(0, Precision + 2 + BitLen(b.m) - BitLen(a.m)))

\* C's fmod(a, b) for a >= 0, b > 0: exact
FMod(a, b) ==
  Canon(BigDivMod(Units(a, Min(a.e, b.e)), Units(b, Min(a.e, b.e)))[2], Min(a.e, b.e))

\* floor(a) for a >= 0
FFloor(a) == IF a.e >= 0 THEN a ELSE Canon(Shr(a.m, -a.e), 0)

\* int(a) for a >= 0, as a natural
FTrunc(a) == IF a.e >= 0 THEN Shl(a.m, a.e) ELSE Shr(a.m, -a.e)

(***************************************************************************)
(* The program's pure functions.                                           *)
(***************************************************************************)
MEGABYTES_IN_A_MEGABIT == Dyadic(1, 3)
MEGABYTES_IN_A_GIGABYTE == FromInt(1000)

NoFloat == [m |-> <<>>, e |-> -1]

Returned(v) == [exc |-> "none", val |-> v]
Raised(x) == [exc |-> x, val |-> NoFloat]

\* assert seconds_one == seconds_two; return seconds_one
AssertEqual(seconds_one, seconds_two) ==
  IF seconds_one = seconds_two THEN Returned(seconds_one) ELSE Raised("AssertionError")

\* seconds_two = cap_in_gigabytes / speed_in_gigabytes
SecondsTwo(cap_in_gigabytes, seconds_one, speed_in_gigabytes) ==
  IF speed_in_gigabytes = FZero THEN Raised("ZeroDivisionError")
  ELSE AssertEqual(seconds_one, FDiv(cap_in_gigabytes, speed_in_gigabytes))

\* seconds_one = (cap_in_gigabytes * MEGABYTES_IN_A_GIGABYTE) / divisor, then
\* speed_in_gigabytes = (speed_in_megabits * MEGABYTES_IN_A_MEGABIT)
\*                      / MEGABYTES_IN_A_GIGABYTE
SecondsOne(cap_in_gigabytes, speed_in_megabits, divisor) ==
  IF divisor = FZero THEN Raised("ZeroDivisionError")
  ELSE SecondsTwo(cap_in_gigabytes,
                  FDiv(FMul(cap_in_gigabytes, MEGABYTES_IN_A_GIGABYTE), divisor),
                  FDiv(FMul(speed_in_megabits, MEGABYTES_IN_A_MEGABIT),
                       MEGABYTES_IN_A_GIGABYTE))

\* A division by zero raises ZeroDivisionError, a failed assert
\* AssertionError.
seconds_to_cap(cap_in_gigabytes, speed_in_megabits) ==
  SecondsOne(cap_in_gigabytes, speed_in_megabits,
             FMul(MEGABYTES_IN_A_MEGABIT, speed_in_megabits))

\* divmod(vx, wx) on floats, vx >= 0 and wx > 0: the remainder is fmod's,
\* the quotient is (vx - mod) / wx floored, and raised by one when the
\* division rounded it to more than a half above its floor.
FloorAdjust(div, floordiv) ==
  IF FCmp(FSub(div, floordiv), Dyadic(1, 1)) > 0
  THEN FAdd(floordiv, FromInt(1))
  ELSE floordiv

FloorDiv(div) == IF div = FZero THEN FZero ELSE FloorAdjust(div, FFloor(div))

\* a zero remainder stays zero (vx - 0 is vx); the sign adjustment of a
\* nonzero one never applies, both operands being positive
DivmodWith(vx, wx, mod) ==
  IF mod = FZero THEN <<FloorDiv(FDiv(vx, wx)), FZero>>
  ELSE <<FloorDiv(FDiv(FSub(vx, mod), wx)), mod>>

FloatDivmod(vx, wx) == DivmodWith(vx, wx, FMod(vx, wx))

minute_in_seconds == 60
hour_in_seconds == 60 * 60
day_in_seconds == 60 * 60 * 24
\* a year of 365 days, the quarter day forgotten
year_of_365_days == FMul(FromInt(60 * 60 * 24), FromInt(365))

\* 60*60*24*365.25
year_in_seconds == FMul(FromInt(60 * 60 * 24), Dyadic(1461, 2))

FromMinutes(years, days, hours, m) ==
  [years |-> years, days |-> days, hours |-> hours, minutes |-> m[1],
   seconds |-> m[2]]

\* the minutes taken with the hour's divisor
FromHoursByHour(years, days, h) ==
  FromMinutes(years, days, h[1], FloatDivmod(h[2], FromInt(hour_in_seconds)))

FromHours(years, days, h) ==
  FromMinutes(years, days, h[1], FloatDivmod(h[2], FromInt(minute_in_seconds)))

\* the hours taken with the minute's divisor
FromDaysByMinute(years, d) ==
  FromHours(years, d[1], FloatDivmod(d[2], FromInt(minute_in_seconds)))

FromDays(years, d) ==
  FromHours(years, d[1], FloatDivmod(d[2], FromInt(hour_in_seconds)))

FromYears(y) == FromDays(y[1], FloatDivmod(y[2], FromInt(day_in_seconds)))

from_seconds(t) == FromYears(FloatDivmod(t, year_in_seconds))

\* the tuple (y, d, h, m, s) of ints, which equals the Time of those values
TimeOfInts(y, d, h, m, s) ==
  [years |-> FromInt(y), days |-> FromInt(d), hours |-> FromInt(h),
   minutes |-> FromInt(m), seconds |-> FromInt(s)]

RECURSIVE Spaces(_)
Spaces(n) == IF n <= 0 THEN "" ELSE " " \o Spaces(n - 1)

\* str.ljust, and the right justification of %<w>s and %<w>d: never shorter
\* than the text
LJust(s, w) == s \o Spaces(w - Len(s))
RJust(s, w) == Spaces(w - Len(s)) \o s

\* '%<w>d' % n for a float n >= 0: int(n) in decimal
FormatD(n, w) == RJust(Decimal(FTrunc(n)), w)

Fields == <<"years", "days", "hours", "minutes", "seconds">>

RECURSIVE Join(_)
Join(cols) ==
  IF Len(cols) = 0 THEN ""
  ELSE IF Len(cols) = 1 THEN cols[1]
  ELSE cols[1] \o " " \o Join(Tail(cols))

\* a zero field rendered as nothing instead of a blank column
ColumnUnpadded(self, field) ==
  IF FCmp(self[field], FZero) > 0
  THEN LJust(FormatD(self[field], 2) \o " " \o field, 10)
  ELSE ""

Column(self, field) ==
  IF FCmp(self[field], FZero) > 0
  THEN LJust(FormatD(self[field], 2) \o " " \o field, 10)
  ELSE Spaces(10)

Columns(self, fields) == [k \in 1..Len(fields) |-> Column(self, fields[k])]

\* Time.__str__ (the second definition, which replaces the first)
TimeStr(self) ==
  Join(Columns(self, IF self.years = FZero THEN Tail(Fields) ELSE Fields))

(***************************************************************************)
(* The printers.  A printer's result is the lines it wrote and the         *)
(* exception that ended it, "none" if it returned.                         *)
(***************************************************************************)
CapHeader(cap, speed) ==
  FormatD(cap, 0) \o " GB cap @ " \o FormatD(speed, 0) \o " megabits:"

\* "    %s" % str(t)
DurationLine(str) == "    " \o str

TableHeader ==
  << "cap (GB)  speed (mb/s)  time to reach cap (at advertised capacity)",
     "--------  ------------  ------------------------------------------" >>

\* "%8s  %12s  %s" % (cap, speed, str(t)) for a pair of ints
TableRow(cap, speed, str) ==
  RJust(Decimal(BN(cap)), 8) \o "  " \o RJust(Decimal(BN(speed)), 12) \o "  "
    \o str

\* (cap in GB, speed in mb/s), seconds
SECONDS_TO_CAP_CHECK_FIGURES ==
  << <<<<1, 1>>, 8000>>,
     <<<<250, 1>>, 2000000>>,
     <<<<250, 5>>, 400000>>,
     <<<<250, 25>>, 80000>>,
     <<<<250, 50>>, 40000>>,
     <<<<250, 100>>, 20000>>,
     <<<<250, 250>>, 8000>>,
     <<<<250, 1000>>, 2000>>,
     <<<<250, 10000>>, 200>>,
     <<<<300, 1>>, 2400000>>,
     <<<<300, 5>>, 480000>>,
     <<<<300, 25>>, 96000>>,
     <<<<300, 50>>, 48000>>,
     <<<<300, 100>>, 24000>>,
     <<<<300, 300>>, 8000>>,
     <<<<300, 1000>>, 2400>>,
     <<<<300, 10000>>, 240>> >>

BuiltinPairs ==
  [k \in 1..Len(SECONDS_TO_CAP_CHECK_FIGURES) |-> SECONDS_TO_CAP_CHECK_FIGURES[k][1]]

(***************************************************************************)
(* State.                                                                  *)
(***************************************************************************)
VARIABLES
  pc,        \* the position of the running call
  opts,      \* main: the parsed options (NoFloat for an option not given)
  loglevel,  \* main: the root logger's configuration
  cap,       \* the cap argument of seconds_to_cap or print_time_to_cap
  speed,     \* the speed argument
  seconds,   \* what seconds_to_cap returned
  t,         \* the argument of Time.from_seconds
  time,      \* what Time.from_seconds returned
  text,      \* str(time)
  figures,   \* the pairs print_cap_table iterates over
  i,         \* the index in figures of the next pair
  stdout,    \* the lines written to standard output
  stderr,    \* the messages written to standard error
  exc,       \* the exception raised, "none" if none
  status     \* the process's exit status, NoStatus while it runs

vars == <<pc, opts, loglevel, cap, speed, seconds, t, time, text, figures, i,
          stdout, stderr, exc, status>>

NoStatus == -1
NoTime == [years |-> NoFloat, days |-> NoFloat, hours |-> NoFloat,
           minutes |-> NoFloat, seconds |-> NoFloat]
NoOpts == [cap |-> NoFloat, speed |-> NoFloat, print_table |-> FALSE,
           run_tests |-> FALSE, quiet |-> FALSE, verbose |-> FALSE]

(***************************************************************************)
(* The inputs.                                                             *)
(***************************************************************************)
MaxCap == 3
MaxSpeed == 11
MaxLen == 2
MaxMant == 9

\* caps in half gigabytes, speeds in whole megabits
CapValues == {Dyadic(n, 1) : n \in 0..MaxCap}
SpeedValues == {FromInt(n) : n \in 0..MaxSpeed}

\* the ints of the pairs given to print_cap_table
CapInts == {1, 250}
SpeedInts == {0, 1, MaxSpeed}

RECURSIVE SeqsUpTo(_, _)
SeqsUpTo(S, n) ==
  IF n = 0 THEN {<<>>}
  ELSE LET shorter == SeqsUpTo(S, n - 1)
       IN  shorter \cup {Append(q, x) : q \in {r \in shorter : Len(r) = n - 1}, x \in S}

FigureSeqs == SeqsUpTo(CapInts \X SpeedInts, MaxLen)

\* seconds: small multiples of a power of two, from quarters of a second to
\* beyond what binary64 resolves to the year; sums of whole fields at the
\* edges of their ranges; the inputs of test_seconds_to_timetuple; and
\* 2^53 - 1, the largest float with a unit of one
Exponents == {-2, 0, 6, 12, 25, 40, 49, 60, 79}

\* y years, d days, h hours, m minutes and s quarter seconds, in seconds
FieldSum(y, rest) ==
  Canon(BigAdd(BigMul(BN(y), BN(4 * 31557600)), BN(rest)), -2)

FieldSums ==
  { FieldSum(y, 4 * (d * day_in_seconds + h * hour_in_seconds
                       + m * minute_in_seconds) + s) :
      y \in {0, 1, 9999, 10000}, d \in {0, 364, 365}, h \in {0, 5, 23},
      m \in {0, 59}, s \in {0, 1, 239} }

TestInputs == {1, 60, 3600, 86400, 31557600, 31647661, 2000}

TimeInputs ==
  {Canon(BN(m), e) : m \in 0..MaxMant, e \in Exponents}
    \cup FieldSums \cup {FromInt(n) : n \in TestInputs}
    \cup {FSub(Canon(<<1>>, Precision), FromInt(1))}

\* what parse_args returns: an option not given is None (NoFloat)
Options ==
  [cap : {NoFloat, FZero, FromInt(1)},
   speed : {NoFloat, FZero, FromInt(1), FromInt(MaxSpeed)},
   print_table : BOOLEAN, run_tests : BOOLEAN, quiet : BOOLEAN, verbose : BOOLEAN]

(***************************************************************************)
(* Time.from_seconds and str(Time), called on their own.                   *)
(***************************************************************************)
\* nothing computed, printed or raised yet
Fresh ==
  /\ loglevel = "unset" /\ seconds = NoFloat /\ time = NoTime /\ text = ""
  /\ i = 1 /\ stdout = <<>> /\ stderr = <<>> /\ exc = "none"
  /\ status = NoStatus

InitTime ==
  /\ pc = "from_seconds"
  /\ t \in TimeInputs
  /\ opts = NoOpts /\ cap = NoFloat /\ speed = NoFloat /\ figures = <<>>
  /\ Fresh

CallFromSeconds ==
  /\ pc = "from_seconds"
  /\ time' = from_seconds(t)
  /\ pc' = "str"
  /\ UNCHANGED <<opts, loglevel, cap, speed, seconds, t, text, figures, i,
                 stdout, stderr, exc, status>>

CallStr ==
  /\ pc = "str"
  /\ text' = TimeStr(time)
  /\ pc' = "done"
  /\ UNCHANGED <<opts, loglevel, cap, speed, seconds, t, time, figures, i,
                 stdout, stderr, exc, status>>

NextTime == CallFromSeconds \/ CallStr

SpecTime == InitTime /\ [][NextTime]_vars

(***************************************************************************)
(* seconds_to_cap, called on its own.                                      *)
(***************************************************************************)
BuiltinCaps == {SECONDS_TO_CAP_CHECK_FIGURES[k][1][1] : k \in 1..Len(SECONDS_TO_CAP_CHECK_FIGURES)}
BuiltinSpeeds == {SECONDS_TO_CAP_CHECK_FIGURES[k][1][2] : k \in 1..Len(SECONDS_TO_CAP_CHECK_FIGURES)}

InitCap ==
  /\ pc = "seconds_to_cap"
  /\ cap \in CapValues \cup {FromInt(n) : n \in BuiltinCaps}
  /\ speed \in SpeedValues \cup {FromInt(n) : n \in BuiltinSpeeds}
  /\ opts = NoOpts /\ t = NoFloat /\ figures = <<>>
  /\ Fresh

\* the call's outcome: the value returned, or the exception raised
Outcome(r) ==
  /\ seconds' = r.val
  /\ exc' = r.exc
  /\ pc' = IF r.exc = "none" THEN "cap_returned" ELSE "raised"

CallSecondsToCap ==
  /\ pc = "seconds_to_cap"
  /\ Outcome(seconds_to_cap(cap, speed))
  /\ UNCHANGED <<opts, loglevel, cap, speed, t, time, text, figures, i,
                 stdout, stderr, status>>

NextCap == CallSecondsToCap

SpecCap == InitCap /\ [][NextCap]_vars

(***************************************************************************)
(* print_cap_table and print_time_to_cap, called on their own or by main.  *)
(***************************************************************************)
InitPrint ==
  /\ \/ /\ pc = "print_cap_table"
        /\ figures \in FigureSeqs \cup {BuiltinPairs}
        /\ cap = NoFloat /\ speed = NoFloat
     \/ /\ pc = "print_time_to_cap"
        /\ cap \in CapValues /\ speed \in SpeedValues
        /\ figures = <<>>
  /\ opts = NoOpts /\ t = NoFloat
  /\ Fresh

\* print_cap_table: the header
PrintTableHeader ==
  /\ pc = "print_cap_table"
  /\ stdout' = stdout \o TableHeader
  /\ i' = 1
  /\ pc' = "table"
  /\ UNCHANGED <<opts, loglevel, cap, speed, seconds, t, time, text, figures,
                 stderr, exc, status>>

\* seconds_to_cap raised: nothing more is computed or printed
Raise(x) ==
  /\ exc' = x
  /\ pc' = "raised"
  /\ UNCHANGED <<seconds, t, time, text, i, stdout>>

\* t = Time.from_seconds(seconds), then str(t)
Render(r) ==
  /\ seconds' = r.val
  /\ t' = r.val
  /\ time' = from_seconds(r.val)
  /\ text' = TimeStr(time')
  /\ UNCHANGED exc

\* print_cap_table: one turn of the loop, for the pair figures[i]
PrintTableRow ==
  /\ pc = "table"
  /\ i <= Len(figures)
  /\ cap' = FromInt(figures[i][1])
  /\ speed' = FromInt(figures[i][2])
  /\ LET r == seconds_to_cap(cap', speed')
     IN  IF r.exc # "none" THEN Raise(r.exc)
         ELSE /\ Render(r)
              /\ stdout' = Append(stdout, TableRow(figures[i][1], figures[i][2], text'))
              /\ i' = i + 1
              /\ pc' = "table"
  /\ UNCHANGED <<opts, loglevel, figures, stderr, status>>

\* print_cap_table: the pairs are exhausted
TableReturn ==
  /\ pc = "table"
  /\ i > Len(figures)
  /\ pc' = "table_returned"
  /\ UNCHANGED <<opts, loglevel, cap, speed, seconds, t, time, text, figures, i,
                 stdout, stderr, exc, status>>

\* print_time_to_cap: the header
PrintCapHeader ==
  /\ pc = "print_time_to_cap"
  /\ stdout' = Append(stdout, CapHeader(cap, speed))
  /\ pc' = "line"
  /\ UNCHANGED <<opts, loglevel, cap, speed, seconds, t, time, text, figures, i,
                 stderr, exc, status>>

\* print_time_to_cap: the computation and the duration line
PrintDuration ==
  /\ pc = "line"
  /\ LET r == seconds_to_cap(cap, speed)
     IN  IF r.exc # "none" THEN Raise(r.exc)
         ELSE /\ Render(r)
              /\ stdout' = Append(stdout, DurationLine(text'))
              /\ pc' = "line_returned"
              /\ UNCHANGED i
  /\ UNCHANGED <<opts, loglevel, cap, speed, figures, stderr, status>>

NextPrint ==
  \/ PrintTableHeader
  \/ PrintTableRow
  \/ TableReturn
  \/ PrintCapHeader
  \/ PrintDuration

SpecPrint == InitPrint /\ [][NextPrint]_vars

(***************************************************************************)
(* The tests unittest.main() runs, in the order of their names.            *)
(***************************************************************************)
TimetupleIO ==
  << <<1, TimeOfInts(0, 0, 0, 0, 1)>>,
     <<60, TimeOfInts(0, 0, 0, 1, 0)>>,
     <<3600, TimeOfInts(0, 0, 1, 0, 0)>>,
     <<86400, TimeOfInts(0, 1, 0, 0, 0)>>,
     <<31557600, TimeOfInts(1, 0, 0, 0, 0)>>,
     <<31647661, TimeOfInts(1, 1, 1, 1, 1)>>,
     <<2000, TimeOfInts(0, 0, 0, 33, 20)>> >>

test_seconds_to_timetuple ==
  \A k \in 1..Len(TimetupleIO) :
    from_seconds(FromInt(TimetupleIO[k][1])) = TimetupleIO[k][2]

FigureResult(figure) ==
  seconds_to_cap(FromInt(figure[1][1]), FromInt(figure[1][2]))

test_seconds_to_cap ==
  \A k \in 1..Len(SECONDS_TO_CAP_CHECK_FIGURES) :
    FigureResult(SECONDS_TO_CAP_CHECK_FIGURES[k])
      = Returned(FromInt(SECONDS_TO_CAP_CHECK_FIGURES[k][2]))

\* what print_time_to_cap prints for a figure: both lines, or the header
\* alone when seconds_to_cap raises
FigureLinesOf(figure, r) ==
  IF r.exc # "none"
  THEN <<CapHeader(FromInt(figure[1][1]), FromInt(figure[1][2]))>>
  ELSE <<CapHeader(FromInt(figure[1][1]), FromInt(figure[1][2])),
         DurationLine(TimeStr(from_seconds(r.val)))>>

FigureLines(figure) == FigureLinesOf(figure, FigureResult(figure))

\* the first figure print_time_to_cap raises on, or one past the last
FirstRaising ==
  SetMin({Len(SECONDS_TO_CAP_CHECK_FIGURES) + 1}
           \cup {k \in 1..Len(SECONDS_TO_CAP_CHECK_FIGURES) :
                   FigureResult(SECONDS_TO_CAP_CHECK_FIGURES[k]).exc # "none"})

test_broadband_cap_time == FirstRaising > Len(SECONDS_TO_CAP_CHECK_FIGURES)

RECURSIVE LinesUpTo(_)
LinesUpTo(k) ==
  IF k = 0 THEN <<>>
  ELSE LinesUpTo(k - 1) \o FigureLines(SECONDS_TO_CAP_CHECK_FIGURES[k])

TestLines == LinesUpTo(Min(FirstRaising, Len(SECONDS_TO_CAP_CHECK_FIGURES)))

TestsPass ==
  test_broadband_cap_time /\ test_seconds_to_cap /\ test_seconds_to_timetuple

(***************************************************************************)
(* main.                                                                   *)
(***************************************************************************)
Usage == "Usage: broadband_cap.py : args"
Help == <<Usage, "", "Options:", "  -h, --help", "  --cap=CAP", "  --speed=SPEED",
          "  --print-table", "  -v, --verbose", "  -q, --quiet", "  -t, --test">>
UsageErrorText == "broadband_cap.py: error: Must specify --cap and --speed"

Init ==
  /\ pc = "main"
  /\ opts \in Options
  /\ cap = NoFloat /\ speed = NoFloat /\ t = NoFloat /\ figures = <<>>
  /\ Fresh

\* if not opts.quiet: logging.basicConfig(), and DEBUG if opts.verbose
ConfigureLogging ==
  /\ pc = "main"
  /\ loglevel' = IF opts.quiet THEN "unset"
                 ELSE IF opts.verbose THEN "DEBUG" ELSE "WARNING"
  /\ pc' = "dispatch"
  /\ UNCHANGED <<opts, cap, speed, seconds, t, time, text, figures, i, stdout,
                 stderr, exc, status>>

\* sys.exit(unittest.main())
RunTests ==
  /\ pc = "dispatch"
  /\ opts.run_tests
  /\ stdout' = stdout \o TestLines
  /\ status' = IF TestsPass THEN 0 ELSE 1
  /\ stderr' = stderr \o <<"Ran 3 tests", IF status' = 0 THEN "OK" ELSE "FAILED">>
  /\ pc' = "exit"
  /\ UNCHANGED <<opts, loglevel, cap, speed, seconds, t, time, text, figures, i,
                 exc>>

\* None in (opts.cap, opts.speed), falsely
FalsyOption(o) == o.cap \in {NoFloat, FZero} \/ o.speed \in {NoFloat, FZero}

\* None in (opts.cap, opts.speed)
MissingOption(o) == o.cap = NoFloat \/ o.speed = NoFloat

\* the table printed only when neither --cap nor --speed is given
TableWithoutOptions(o) == o.print_table /\ o.cap = NoFloat /\ o.speed = NoFloat

\* if opts.print_table
TableChosen(o) == o.print_table

\* print_cap_table(x[0] for x in SECONDS_TO_CAP_CHECK_FIGURES)
EnterTable ==
  /\ pc = "dispatch"
  /\ ~opts.run_tests
  /\ TableChosen(opts)
  /\ figures' = BuiltinPairs
  /\ pc' = "print_cap_table"
  /\ UNCHANGED <<opts, loglevel, cap, speed, seconds, t, time, text, i, stdout,
                 stderr, exc, status>>

\* prs.print_help(); prs.error("Must specify --cap and --speed")
UsageError ==
  /\ pc = "dispatch"
  /\ ~opts.run_tests
  /\ ~TableChosen(opts)
  /\ MissingOption(opts)
  /\ stdout' = stdout \o Help
  /\ stderr' = stderr \o <<Usage, "", UsageErrorText>>
  /\ status' = 2
  /\ pc' = "exit"
  /\ UNCHANGED <<opts, loglevel, cap, speed, seconds, t, time, text, figures, i,
                 exc>>

\* print_time_to_cap(opts.cap, opts.speed)
EnterLine ==
  /\ pc = "dispatch"
  /\ ~opts.run_tests
  /\ ~TableChosen(opts)
  /\ ~MissingOption(opts)
  /\ cap' = opts.cap
  /\ speed' = opts.speed
  /\ pc' = "print_time_to_cap"
  /\ UNCHANGED <<opts, loglevel, seconds, t, time, text, figures, i, stdout,
                 stderr, exc, status>>

\* return 0, and sys.exit(main())
MainReturn ==
  /\ pc \in {"table_returned", "line_returned"}
  /\ status' = 0
  /\ pc' = "exit"
  /\ UNCHANGED <<opts, loglevel, cap, speed, seconds, t, time, text, figures, i,
                 stdout, stderr, exc>>

\* an exception nothing catches: the interpreter prints the traceback and
\* exits with status 1
Traceback ==
  /\ pc = "raised"
  /\ stderr' = stderr \o <<"Traceback (most recent call last):", exc>>
  /\ status' = 1
  /\ pc' = "exit"
  /\ UNCHANGED <<opts, loglevel, cap, speed, seconds, t, time, text, figures, i,
                 stdout, exc>>

Next ==
  \/ ConfigureLogging
  \/ RunTests
  \/ EnterTable
  \/ UsageError
  \/ EnterLine
  \/ PrintTableHeader
  \/ PrintTableRow
  \/ TableReturn
  \/ PrintCapHeader
  \/ PrintDuration
  \/ MainReturn
  \/ Traceback

Spec == Init /\ [][Next]_vars

(***************************************************************************)
(* Exact arithmetic on the values of floats, for stating the claims: no    *)
(* rounding.                                                               *)
(***************************************************************************)
XAdd(a, b) ==
  Canon(BigAdd(Units(a, Min(a.e, b.e)), Units(b, Min(a.e, b.e))), Min(a.e, b.e))

XMul(a, b) == Canon(BigMul(a.m, b.m), a.e + b.e)

Whole(a) == a.e >= 0

\* 2^53: below it binary64 holds every whole number
TwoTo53 == [m |-> <<1>>, e |-> Precision]

Returned53 == pc # "from_seconds" /\ FCmp(t, TwoTo53) < 0

\* minutes*60 + seconds, hours*3600 + that, days*86400 + that
Rest3(r) == XAdd(XMul(r.minutes, FromInt(60)), r.seconds)
Rest2(r) == XAdd(XMul(r.hours, FromInt(3600)), Rest3(r))
Rest1(r) == XAdd(XMul(r.days, FromInt(86400)), Rest2(r))

Total(r) == XAdd(XMul(r.years, FromInt(31557600)), Rest1(r))

\* C1 as stated: for every t >= 0, years*31557600 + days*86400 + hours*3600
\* + minutes*60 + seconds of Time.from_seconds(t) equals t.
C1_RoundTripEveryT == pc # "from_seconds" => Total(time) = t

\* C1 amended: for every t with 0 <= t < 2^53, years*31557600 + days*86400
\* + hours*3600 + minutes*60 + seconds of Time.from_seconds(t) equals t.
C1_RoundTrip == Returned53 => Total(time) = t

\* from_seconds has returned for a t of more than a year with a fraction of
\* a second
C1_Witness ==
  /\ Returned53 /\ ~Whole(t) /\ FCmp(time.years, FZero) > 0
  /\ FCmp(time.days, FZero) > 0 /\ ~Whole(time.seconds)

SuccessiveFloor(x, r) ==
  /\ Whole(r.years) /\ Whole(r.days) /\ Whole(r.hours) /\ Whole(r.minutes)
  /\ Total(r) = x
  /\ FCmp(Rest1(r), FromInt(31557600)) < 0
  /\ FCmp(Rest2(r), FromInt(86400)) < 0
  /\ FCmp(Rest3(r), FromInt(3600)) < 0
  /\ FCmp(r.seconds, FromInt(60)) < 0

Examples ==
  /\ t = FromInt(31557600) => time = TimeOfInts(1, 0, 0, 0, 0)
  /\ t = FromInt(31647661) => time = TimeOfInts(1, 1, 1, 1, 1)
  /\ t = FromInt(2000) => time = TimeOfInts(0, 0, 0, 33, 20)

\* C4 as stated: for every t >= 0 the fields are the successive floor
\* divisions of t by 31557600, 86400, 3600 and 60, each applied to the
\* remainder of the one before, seconds being the last remainder; years,
\* days, hours and minutes are whole.
C4_SuccessiveFloorEveryT == pc # "from_seconds" => SuccessiveFloor(t, time)

\* C4 amended: the same for every t with 0 <= t < 2^53, and 31557600,
\* 31647661 and 2000 give (1,0,0,0,0), (1,1,1,1,1) and (0,0,0,33,20).
C4_SuccessiveFloor == Returned53 => SuccessiveFloor(t, time) /\ Examples

\* from_seconds has returned for a t with a fraction whose every quotient
\* is positive
C4_Witness ==
  /\ Returned53 /\ ~Whole(t)
  /\ FCmp(time.years, FromInt(1)) > 0 /\ FCmp(time.days, FromInt(1)) > 0
  /\ FCmp(time.hours, FromInt(1)) > 0 /\ FCmp(time.minutes, FromInt(1)) > 0

\* C9: for every t >= 0, every field of Time.from_seconds(t) is non-negative
\* (a float of the model has no sign: the code never subtracts past zero),
\* days <= 365, hours <= 23, minutes <= 59 and seconds < 60.
C9_FieldBounds ==
  pc # "from_seconds" =>
    /\ FCmp(time.years, FZero) >= 0
    /\ FCmp(time.days, FZero) >= 0 /\ FCmp(time.days, FromInt(365)) <= 0
    /\ FCmp(time.hours, FZero) >= 0 /\ FCmp(time.hours, FromInt(23)) <= 0
    /\ FCmp(time.minutes, FZero) >= 0 /\ FCmp(time.minutes, FromInt(59)) <= 0
    /\ FCmp(time.seconds, FZero) >= 0 /\ FCmp(time.seconds, FromInt(60)) < 0

\* from_seconds has returned with every lower field at its bound: the last
\* quarter second of a year's 365 days and 6 hours
C9_Witness ==
  /\ pc # "from_seconds"
  /\ time.days = FromInt(365) /\ time.hours = FromInt(5)
  /\ time.minutes = FromInt(59) /\ FCmp(time.seconds, FromInt(59)) > 0

\* the fields str(Time) shows, and the cell of one of them
Shown(r) == IF r.years = FZero THEN Tail(Fields) ELSE Fields

Cell(v, name) ==
  IF FCmp(v, FZero) > 0
  THEN LJust(RJust(Decimal(FTrunc(v)), 2) \o " " \o name, 10)
  ELSE "          "

\* s is one cell of width 10 for each shown field, single spaces between
Rendered(r, s) ==
  /\ Len(s) = IF r.years = FZero THEN 43 ELSE 54
  /\ \A k \in 1..Len(Shown(r)) :
       SubSeq(s, 11 * k - 10, 11 * k - 1) = Cell(r[Shown(r)[k]], Shown(r)[k])
  /\ \A k \in 1..(Len(Shown(r)) - 1) : SubSeq(s, 11 * k, 11 * k) = " "

\* C8 as stated: for every t >= 0, str(Time.from_seconds(t)) leaves years
\* out when it is zero; a shown field > 0 is '<value> <name>' in a column of
\* width 10, a shown field of 0 a blank column of width 10; the columns are
\* joined by single spaces: 43 characters when years = 0, 54 otherwise.
C8_RenderedEveryT == pc = "done" => Rendered(time, text)

\* C8 amended: the same whenever years <= 9999 (a years value of five or
\* more digits is wider than its column).
C8_Rendered ==
  (pc = "done" /\ FCmp(time.years, FromInt(9999)) <= 0) => Rendered(time, text)

\* str has rendered a Time of 9999 years with a blank column and a
\* fraction of a second
C8_Witness ==
  /\ pc = "done" /\ time.years = FromInt(9999) /\ time.hours = FZero
  /\ FCmp(time.days, FZero) > 0 /\ ~Whole(time.seconds) /\ Len(text) = 54

(***************************************************************************)
(* seconds_to_cap.                                                         *)
(***************************************************************************)
Called == pc # "seconds_to_cap" /\ FCmp(speed, FZero) > 0

\* (cap * 1000) / (0.125 * speed) and cap / ((speed * 0.125) / 1000)
DerivationOne == FDiv(FMul(cap, FromInt(1000)), FMul(Dyadic(1, 3), speed))
DerivationTwo == FDiv(cap, FDiv(FMul(speed, Dyadic(1, 3)), FromInt(1000)))

Listed(figure) ==
  (cap = FromInt(figure[1][1]) /\ speed = FromInt(figure[1][2]))
    => seconds = FromInt(figure[2])

\* C2: for every cap >= 0 and speed > 0, seconds_to_cap(cap, speed) returns
\* (cap * 1000) / (0.125 * speed), and for every entry of
\* SECONDS_TO_CAP_CHECK_FIGURES the listed seconds.
C2_ReturnsQuotient ==
  Called =>
    /\ pc = "cap_returned"
    /\ seconds = DerivationOne
    /\ \A k \in 1..Len(SECONDS_TO_CAP_CHECK_FIGURES) :
         Listed(SECONDS_TO_CAP_CHECK_FIGURES[k])

\* C3: for every cap >= 0 and speed > 0 the two derivations agree exactly:
\* the assertion never fails and seconds_to_cap returns a value.
C3_DerivationsAgree ==
  Called => exc # "AssertionError" /\ exc = "none" /\ DerivationOne = DerivationTwo

(***************************************************************************)
(* The printers.                                                           *)
(***************************************************************************)
InTable ==
  pc \in {"table", "table_returned"} \/ (pc = "raised" /\ figures # <<>>)

TableEnded == pc = "table_returned" \/ (pc = "raised" /\ figures # <<>>)

InLine ==
  pc \in {"line", "line_returned"} \/ (pc = "raised" /\ figures = <<>>)

ValidPairs == \A k \in 1..Len(figures) : figures[k][1] >= 0 /\ figures[k][2] > 0

\* the row's first 22 characters: cap right-aligned in 8, speed in 12
RowOf(row, pair) ==
  /\ Len(row) >= 22
  /\ SubSeq(row, 1, 22)
       = RJust(Decimal(BN(pair[1])), 8) \o "  " \o RJust(Decimal(BN(pair[2])), 12)

RowsInOrder ==
  \A k \in 3..Len(stdout) : RowOf(stdout[k], figures[k - 2])

\* C7: print_cap_table over n pairs (cap >= 0, speed > 0) prints the
\* two-line header first and then exactly n rows, row k for pair k; over the
\* built-in figures every row has the same length.
C7_HeaderThenRows ==
  /\ InTable => Len(stdout) >= 2 /\ SubSeq(stdout, 1, 2) = TableHeader /\ RowsInOrder
  /\ (TableEnded /\ ValidPairs) => Len(stdout) = 2 + Len(figures)
  /\ (TableEnded /\ figures = BuiltinPairs) =>
       \A k \in 3..Len(stdout) : Len(stdout[k]) = Len(stdout[3])

ZeroSpeeds == {k \in 1..Len(figures) : figures[k][2] = 0}

\* C10: print_time_to_cap(cap, 0) fails with the division error after its
\* header line and prints no duration; print_cap_table over pairs the first
\* of which with speed 0 is at position z fails with the division error
\* after the header and exactly the rows of the pairs before z.
C10_ZeroSpeedFails ==
  /\ (InLine /\ speed = FZero /\ pc # "line") =>
       /\ pc = "raised" /\ exc = "ZeroDivisionError"
       /\ stdout = <<CapHeader(cap, speed)>>
  /\ (TableEnded /\ ZeroSpeeds # {}) =>
       /\ pc = "raised" /\ exc = "ZeroDivisionError"
       /\ Len(stdout) = 2 + (SetMin(ZeroSpeeds) - 1)

(***************************************************************************)
(* main.                                                                   *)
(***************************************************************************)
Plain == ~opts.print_table /\ ~opts.run_tests

\* --cap or --speed is not on the command line
NotSupplied == opts.cap = NoFloat \/ opts.speed = NoFloat

Contains(lines, line) == \E k \in 1..Len(lines) : lines[k] = line

\* C5: without --print-table and -t, when --cap or --speed is not given
\* main prints the help and exits with a non-zero status by the parser's
\* error, and prints no cap header or duration; when both are given, 0
\* included, it takes no usage-error path.
C5_UsageError ==
  /\ (Plain /\ NotSupplied) =>
       /\ stdout \in {<<>>, Help}
       /\ status \in {NoStatus, 2}
       /\ pc \in {"main", "dispatch", "exit"}
       /\ pc = "exit" =>
            status = 2 /\ stdout = Help /\ Contains(stderr, UsageErrorText)
  /\ (Plain /\ ~NotSupplied) =>
       /\ ~Contains(stderr, UsageErrorText) /\ ~Contains(stdout, Usage)
       /\ status # 2
       /\ pc = "exit" => Contains(stdout, CapHeader(opts.cap, opts.speed))

\* main has exited by the usage error although --cap 0 was given
C5_Witness ==
  /\ Plain /\ opts.cap = FZero /\ opts.speed = NoFloat
  /\ pc = "exit" /\ status = 2 /\ stdout = Help

\* C6: with --print-table and without -t, main prints the table of the
\* built-in pairs and exits with 0, whatever --cap and --speed are; it
\* prints no single-line report and raises no usage error.
C6_PrintTable ==
  (opts.print_table /\ ~opts.run_tests) =>
    /\ exc = "none" /\ stderr = <<>> /\ status \in {NoStatus, 0}
    /\ pc \in {"main", "dispatch", "print_cap_table", "table", "table_returned",
               "exit"}
    /\ pc \notin {"main", "dispatch", "print_cap_table"} =>
         /\ figures = BuiltinPairs
         /\ Len(stdout) >= 2 /\ SubSeq(stdout, 1, 2) = TableHeader
         /\ RowsInOrder
    /\ pc = "exit" =>
         status = 0 /\ Len(stdout) = 2 + Len(SECONDS_TO_CAP_CHECK_FIGURES)

\* main has printed the table and exited with 0 although --speed 0 was
\* given and --cap was not
C6_Witness ==
  /\ opts.print_table /\ ~opts.run_tests
  /\ opts.cap = NoFloat /\ opts.speed = FZero
  /\ pc = "exit" /\ status = 0 /\ Len(stdout) = 19

====
